---- MODULE Spec2Model ----
(***************************************************************************)
(* Model of the FIX message codec of quickfix (message.go): parseMessage,  *)
(* Message.rebuild and Message.reverseRoute.  A byte is a number in        *)
(* 0..255, a byte slice is a sequence of bytes.                            *)
(***************************************************************************)
EXTENDS Integers, Sequences, FiniteSets, TLC

(* ----------------------------- bounds ---------------------------------- *)
\* longest run of fields between message-type and the tail of a framing input
MaxMid == 2
\* most routing header fields in a routing input
MaxRoute == 2
\* most caller mutations (FieldMap.Set) between parsing and rebuilding
MaxSets == 1

(* ------------------------- bytes and tags ------------------------------ *)
SOH == 1
EQ == 61
Ascii0 == 48

BeginString == 8
BodyLength == 9
MsgType == 35
CheckSum == 10
SenderCompID == 49
TargetCompID == 56
SenderSubID == 50
TargetSubID == 57
SenderLocationID == 142
TargetLocationID == 143
OnBehalfOfCompID == 115
DeliverToCompID == 128
OnBehalfOfSubID == 116
DeliverToSubID == 129
OnBehalfOfLocationID == 144
DeliverToLocationID == 145
Symbol == 55
Text == 58
SignatureLength == 93

\* "FIX.4.0" and "FIX.4.2"
BeginString_FIX40 == <<70, 73, 88, 46, 52, 46, 48>>
BeginString_FIX42 == <<70, 73, 88, 46, 52, 46, 50>>

\* tag.IsHeader, tag.IsTrailer: the static partition of the tags
HeaderTags == {BeginString, BodyLength, MsgType, SenderCompID, TargetCompID,
               SenderSubID, TargetSubID, SenderLocationID, TargetLocationID,
               OnBehalfOfCompID, DeliverToCompID, OnBehalfOfSubID,
               DeliverToSubID, OnBehalfOfLocationID, DeliverToLocationID}
TrailerTags == {SignatureLength, CheckSum}
IsHeader(t) == t \in HeaderTags
IsTrailer(t) == t \in TrailerTags

(* --------------------------- byte helpers ------------------------------ *)
RECURSIVE SumBytes(_)
SumBytes(s) == IF s = <<>> THEN 0 ELSE Head(s) + SumBytes(Tail(s))

RECURSIVE Flatten(_)
Flatten(ss) == IF ss = <<>> THEN <<>> ELSE Head(ss) \o Flatten(Tail(ss))

\* bytes.IndexByte: 0-based index of the first c in buffer, -1 when absent
IndexByte(buffer, c) ==
  IF \E i \in 1..Len(buffer) : buffer[i] = c
    THEN (CHOOSE i \in 1..Len(buffer) :
            buffer[i] = c /\ \A j \in 1..(i - 1) : buffer[j] # c) - 1
    ELSE -1

\* buffer[lo:hi] of Go (0-based, hi exclusive)
Slice(buffer, lo, hi) == SubSeq(buffer, lo + 1, hi)

\* decimal formatting of a non-negative integer (strconv.Itoa, %d)
RECURSIVE Itoa(_)
Itoa(n) == IF n < 10 THEN <<Ascii0 + n>>
           ELSE Itoa(n \div 10) \o <<Ascii0 + (n % 10)>>

IsDigits(d) == Len(d) > 0 /\ \A i \in 1..Len(d) : d[i] \in Ascii0..(Ascii0 + 9)

RECURSIVE DigitsValue(_)
DigitsValue(d) == IF d = <<>> THEN 0
                  ELSE 10 * DigitsValue(SubSeq(d, 1, Len(d) - 1)) + (d[Len(d)] - Ascii0)

\* strconv.Atoi on the byte strings of the model (no sign): [ok, n]
Atoi(d) == IF IsDigits(d) THEN [ok |-> TRUE, n |-> DigitsValue(d)]
           ELSE [ok |-> FALSE, n |-> 0]

(* ------------------------------ fields --------------------------------- *)
\* the nil *fieldBytes
NoField == [Tag |-> 0, Data |-> <<>>, Value |-> <<>>]

\* the nil error and the three parse errors
NoError == [kind |-> "nil", expected |-> 0, actual |-> 0]
NoTrailingDelim == [kind |-> "NoTrailingDelim", expected |-> 0, actual |-> 0]
BadField == [kind |-> "BadField", expected |-> 0, actual |-> 0]
OutOfOrder(expectedTag, actualTag) ==
  [kind |-> "OutOfOrder", expected |-> expectedTag, actual |-> actualTag]
IncorrectLength(declared, length) ==
  [kind |-> "IncorrectLength", expected |-> declared, actual |-> length]

\* fieldBytes.Length and fieldBytes.Total
FieldLength(f) == Len(f.Data)
FieldTotal(f) == SumBytes(f.Data)

\* the wire form tag=value<SOH> of a field (fix.NewStringField, fix.NewIntField)
NewField(t, value) ==
  [Tag |-> t, Data |-> Itoa(t) \o <<EQ>> \o value \o <<SOH>>, Value |-> value]

\* parseField: the tag is the digits before '=', the value the bytes after it
parseField(rawFieldBytes) ==
  LET sepIndex == IndexByte(rawFieldBytes, EQ)
      parsedTag == Atoi(Slice(rawFieldBytes, 0, sepIndex))
  IN IF sepIndex = -1 \/ ~parsedTag.ok \/ parsedTag.n <= 0
       THEN [field |-> NoField, err |-> BadField]
       ELSE [field |-> [Tag |-> parsedTag.n, Data |-> rawFieldBytes,
                        Value |-> Slice(rawFieldBytes, sepIndex + 1,
                                        Len(rawFieldBytes) - 1)],
             err |-> NoError]

\* extractField without the test for a missing delimiter
extractFieldUnguarded(buffer) ==
  LET endIndex == IndexByte(buffer, SOH)
      parsed == parseField(Slice(buffer, 0, endIndex + 1))
  IN [field |-> parsed.field,
      remBytes |-> Slice(buffer, endIndex + 1, Len(buffer)),
      err |-> parsed.err]

\* extractField handing back the buffer it was given
extractFieldInPlace(buffer) ==
  LET endIndex == IndexByte(buffer, SOH)
      parsed == parseField(Slice(buffer, 0, endIndex + 1))
  IN IF endIndex = -1
       THEN [field |-> NoField, remBytes |-> buffer, err |-> NoTrailingDelim]
       ELSE [field |-> parsed.field, remBytes |-> buffer, err |-> parsed.err]

extractField(buffer) ==
  LET endIndex == IndexByte(buffer, SOH)
      parsed == parseField(Slice(buffer, 0, endIndex + 1))
  IN IF endIndex = -1
       THEN [field |-> NoField, remBytes |-> buffer, err |-> NoTrailingDelim]
       ELSE [field |-> parsed.field,
             remBytes |-> Slice(buffer, endIndex + 1, Len(buffer)),
             err |-> parsed.err]

\* extractSpecificField without the comparison of the tags
extractSpecificFieldUnchecked(expectedTag, buffer) == extractField(buffer)

extractSpecificField(expectedTag, buffer) ==
  LET r == extractField(buffer)
  IN IF r.err # NoError THEN r
     ELSE IF r.field.Tag # expectedTag
       THEN [r EXCEPT !.err = OutOfOrder(expectedTag, r.field.Tag)]
     ELSE r

(* ----------------------------- field maps ------------------------------ *)
EmptyMap == [t \in {} |-> NoField]

\* fieldMap.Set and fieldLookup[tag] = field
MapSet(m, f) == [t \in (DOMAIN m) \cup {f.Tag} |-> IF t = f.Tag THEN f ELSE m[t]]

RECURSIVE SumLengths(_, _)
SumLengths(m, tags) ==
  IF tags = {} THEN 0
  ELSE LET t == CHOOSE x \in tags : TRUE
       IN FieldLength(m[t]) + SumLengths(m, tags \ {t})

RECURSIVE SumTotals(_, _)
SumTotals(m, tags) ==
  IF tags = {} THEN 0
  ELSE LET t == CHOOSE x \in tags : TRUE
       IN FieldTotal(m[t]) + SumTotals(m, tags \ {t})

\* fieldMap.length: begin-string, body-length and checksum do not contribute
MapLength(m) == SumLengths(m, (DOMAIN m) \ {BeginString, BodyLength, CheckSum})

\* fieldMap.total: the checksum field does not contribute
MapTotal(m) == SumTotals(m, (DOMAIN m) \ {CheckSum})

RECURSIVE Ascending(_)
Ascending(tags) ==
  IF tags = {} THEN <<>>
  ELSE LET t == CHOOSE x \in tags : \A y \in tags : x <= y
       IN <<t>> \o Ascending(tags \ {t})

\* headerFieldOrder: begin-string, body-length, message-type, then by tag
headerFieldOrder(tags) ==
  LET lead == <<BeginString, BodyLength, MsgType>>
  IN SelectSeq(lead, LAMBDA t : t \in tags)
       \o Ascending(tags \ {BeginString, BodyLength, MsgType})

\* trailerFieldOrder: by tag, the checksum last
trailerFieldOrder(tags) ==
  Ascending(tags \ {CheckSum}) \o (IF CheckSum \in tags THEN <<CheckSum>> ELSE <<>>)

\* fieldMap.write: the fields in the order of the partition
MapWrite(m, order) == Flatten([i \in 1..Len(order) |-> m[order[i]].Data])
headerWrite(m) == MapWrite(m, headerFieldOrder(DOMAIN m))
trailerWrite(m) == MapWrite(m, trailerFieldOrder(DOMAIN m))

\* FieldMap.GetField into a fix.IntValue: the value stays 0 when the read fails
GetInt(m, t) == IF t \in DOMAIN m /\ Atoi(m[t].Value).ok THEN Atoi(m[t].Value).n ELSE 0

\* FieldMap.GetField into a fix.StringValue: [ok, Value]
GetString(m, t) == IF t \in DOMAIN m THEN [ok |-> TRUE, Value |-> m[t].Value]
                   ELSE [ok |-> FALSE, Value |-> <<>>]

(* ------------------------------ inputs --------------------------------- *)
\* the fields the input buffers are made of
MidTokens == {"H", "B", "B2", "T", "L", "L1", "Z"}
LeadKinds == {"ok", "off", "nan", "first", "second", "third"}
TailKinds == {"cs", "cs+", "cut"}

\* field bytes of a token that counts toward the length of the message
TokenData(tok) ==
  CASE tok = "H" -> NewField(SenderCompID, <<65>>).Data
    [] tok = "B" -> NewField(Symbol, <<88>>).Data
    [] tok = "B2" -> NewField(Symbol, <<89, 89>>).Data
    [] tok = "T" -> NewField(SignatureLength, <<49>>).Data
    [] tok = "Z" -> <<90, SOH>>
    [] OTHER -> <<>>

RECURSIVE MidLength(_)
MidLength(mid) ==
  IF mid = <<>> THEN 0 ELSE Len(TokenData(Head(mid))) + MidLength(Tail(mid))

\* a body-length field in the middle of the message declares n or n + 1
RECURSIVE MidBytes(_, _)
MidBytes(mid, n) ==
  IF mid = <<>> THEN <<>>
  ELSE (CASE Head(mid) = "L" -> NewField(BodyLength, Itoa(n)).Data
          [] Head(mid) = "L1" -> NewField(BodyLength, Itoa(n + 1)).Data
          [] OTHER -> TokenData(Head(mid)))
       \o MidBytes(Tail(mid), n)

TailBytes(tail) ==
  CASE tail = "cs" -> NewField(CheckSum, <<48, 48, 48>>).Data
    [] tail = "cs+" -> NewField(CheckSum, <<48, 48, 48>>).Data \o NewField(Text, <<89>>).Data
    [] OTHER -> <<53, 53, EQ, 88>>

\* the three leading fields; n is the length the rest of the message has
LeadBytes(lead, beginString, n) ==
  LET bs == NewField(BeginString, beginString).Data
      mt == NewField(MsgType, <<48>>).Data
      bl(v) == NewField(BodyLength, v).Data
  IN CASE lead = "ok" -> bs \o bl(Itoa(n)) \o mt
       [] lead = "off" -> bs \o bl(Itoa(n + 1)) \o mt
       [] lead = "nan" -> bs \o bl(<<120>>) \o mt
       [] lead = "first" -> mt \o bl(Itoa(n)) \o mt
       [] lead = "second" -> bs \o mt \o mt
       [] OTHER -> bs \o bl(Itoa(n)) \o NewField(SenderCompID, <<65>>).Data

SeqsUpTo(S, n) == UNION {[1..k -> S] : k \in 0..n}

FramingInput(lead, mid, tail) ==
  LET n == Len(NewField(MsgType, <<48>>).Data) + MidLength(mid)
  IN LeadBytes(lead, BeginString_FIX42, n) \o MidBytes(mid, n) \o TailBytes(tail)

FramingInputs ==
  {FramingInput(lead, mid, tail) :
     lead \in LeadKinds, mid \in SeqsUpTo(MidTokens, MaxMid), tail \in TailKinds}

\* every prefix of 8=FIX.4.2|9=5|35=0|10=000|, the empty buffer included
SampleMessage == FramingInput("ok", <<>>, "cs")
PrefixInputs == {SubSeq(SampleMessage, 1, k) : k \in 0..Len(SampleMessage)}

\* the routing tags, in the order of their tag numbers
RoutingTags == <<SenderCompID, SenderSubID, TargetCompID, TargetSubID,
                 OnBehalfOfCompID, OnBehalfOfSubID, DeliverToCompID, DeliverToSubID,
                 SenderLocationID, TargetLocationID,
                 OnBehalfOfLocationID, DeliverToLocationID>>

\* the value a routing field carries: empty, or a letter of its own
RoutingValue(i, empty) == IF empty THEN <<>> ELSE <<64 + i>>

\* ascending index sequences: each routing tag occurs at most once
RoutingPicks ==
  {p \in SeqsUpTo(1..Len(RoutingTags), MaxRoute) :
     \A i \in 1..(Len(p) - 1) : p[i] < p[i + 1]}

RoutingInput(beginString, picks, empties) ==
  LET fs == [i \in 1..Len(picks) |->
               NewField(RoutingTags[picks[i]],
                        RoutingValue(picks[i], picks[i] \in empties)).Data]
      n == Len(NewField(MsgType, <<48>>).Data) + Len(Flatten(fs))
  IN LeadBytes("ok", beginString, n) \o Flatten(fs) \o TailBytes("cs")

RoutingInputs ==
  UNION {{RoutingInput(bs, p, e) :
            bs \in {BeginString_FIX40, BeginString_FIX42},
            e \in SUBSET {p[i] : i \in 1..Len(p)}} : p \in RoutingPicks}

Inputs == FramingInputs \cup PrefixInputs \cup RoutingInputs

(* ------------------------------- state --------------------------------- *)
VARIABLES
  msg,           \* the Message: Header, Body, Trailer, Bytes, bodyBytes, fields
  rawMessage,    \* parseMessage: the bytes not yet parsed
  trailerBytes,  \* parseMessage: the bytes after the last body field
  foundBody,     \* parseMessage: a body field was seen
  pc,            \* position in parseMessage, or "done", or "routed"
  ret,           \* what parseMessage returned: [nil, err]
  round,         \* 1: parsing the input; 2: parsing the rebuilt Bytes
  orig,          \* [msg, ret]: the Message and its parse result on entry to the first rebuild()
  sets,          \* number of caller mutations since parsing
  built,         \* "no", "once", "again": calls of rebuild() since parsing
  builder,       \* the MessageBuilder reverseRoute returned
  iterations     \* parseMessage: passes through the body of the loop so far

vars == <<msg, rawMessage, trailerBytes, foundBody, pc, ret, round, orig, sets,
          built, builder, iterations>>

\* &Message{Header: header, Body: body, Trailer: trailer, Bytes: rawMessage}
NewMessage(bytes) ==
  [Header |-> EmptyMap, Body |-> EmptyMap, Trailer |-> EmptyMap,
   Bytes |-> bytes, bodyBytes |-> <<>>, fields |-> <<>>]

\* NewMessageBuilder(): no field in any partition
NewMessageBuilder == [Header |-> EmptyMap, Body |-> EmptyMap, Trailer |-> EmptyMap]

Returned(nil, err) == [nil |-> nil, err |-> err]

Init ==
  /\ msg = NewMessage(<<>>)
  /\ rawMessage = <<>>
  /\ trailerBytes = <<>>
  /\ foundBody = FALSE
  /\ pc = "idle"
  /\ ret = Returned(TRUE, NoError)
  /\ round = 1
  /\ orig = [msg |-> NewMessage(<<>>), ret |-> Returned(TRUE, NoError)]
  /\ sets = 0
  /\ built = "no"
  /\ builder = NewMessageBuilder
  /\ iterations = 0

(* ---------------------------- parseMessage ----------------------------- *)
\* the call: the maps are initialised, msg wraps the buffer
ParseMessage ==
  /\ pc = "idle"
  /\ \E buf \in Inputs :
       /\ msg' = NewMessage(buf)
       /\ rawMessage' = buf
  /\ pc' = "BeginString"
  /\ iterations' = 0
  /\ UNCHANGED <<trailerBytes, foundBody, ret, round, orig, sets, built, builder>>

\* msg.fields = append(msg.fields, f); header.fieldLookup[f.Tag] = f
AppendHeader(m, f) ==
  [m EXCEPT !.fields = Append(@, f), !.Header = MapSet(@, f)]

\* one of the three mandatory leading fields
ExtractLeading(expectedTag, here, next) ==
  /\ pc = here
  /\ LET r == extractSpecificField(expectedTag, rawMessage)
     IN /\ rawMessage' = r.remBytes
        /\ IF r.err # NoError
             THEN /\ ret' = Returned(TRUE, r.err)
                  /\ pc' = "done"
                  /\ msg' = msg
             ELSE /\ msg' = AppendHeader(msg, r.field)
                  /\ pc' = next
                  /\ ret' = ret
  /\ trailerBytes' = <<>>
  /\ foundBody' = FALSE
  /\ UNCHANGED <<round, orig, sets, built, builder, iterations>>

ExtractBeginString == ExtractLeading(BeginString, "BeginString", "BodyLength")
ExtractBodyLength == ExtractLeading(BodyLength, "BodyLength", "MsgType")
ExtractMsgType == ExtractLeading(MsgType, "MsgType", "loop")

\* the switch of the loop keeping the first field of a tag
RouteFirstWins(m, f) ==
  LET keep(map) == IF f.Tag \in DOMAIN map THEN map ELSE MapSet(map, f)
  IN IF IsHeader(f.Tag) THEN [m EXCEPT !.Header = keep(@)]
     ELSE IF IsTrailer(f.Tag) THEN [m EXCEPT !.Trailer = keep(@)]
     ELSE [m EXCEPT !.Body = keep(@)]

\* the switch of the loop: the field goes to the partition of its tag
Route(m, f) ==
  IF IsHeader(f.Tag) THEN [m EXCEPT !.Header = MapSet(@, f)]
  ELSE IF IsTrailer(f.Tag) THEN [m EXCEPT !.Trailer = MapSet(@, f)]
  ELSE [m EXCEPT !.Body = MapSet(@, f)]

IsBody(t) == ~IsHeader(t) /\ ~IsTrailer(t)

\* the loop ending at any trailer field
EndsLoopAtTrailer(f) == IsTrailer(f.Tag)

\* the field that ends the loop
EndsLoop(f) == f.Tag = CheckSum

\* one iteration of the loop
ExtractNext ==
  /\ pc = "loop"
  /\ LET r == extractField(rawMessage)
         f == r.field
         routed == Route([msg EXCEPT !.fields = Append(@, f)], f)
         found == foundBody \/ IsBody(f.Tag)
     IN /\ rawMessage' = r.remBytes
        /\ IF r.err # NoError
             THEN /\ ret' = Returned(TRUE, r.err)
                  /\ pc' = "done"
                  /\ UNCHANGED <<msg, foundBody, trailerBytes>>
             ELSE /\ foundBody' = found
                  /\ trailerBytes' = IF IsBody(f.Tag) THEN r.remBytes ELSE trailerBytes
                  /\ IF EndsLoop(f)
                       THEN /\ msg' = routed
                            /\ pc' = "validate"
                       ELSE /\ msg' = IF ~found
                                        THEN [routed EXCEPT !.bodyBytes = r.remBytes]
                                        ELSE routed
                            /\ pc' = "loop"
                  /\ ret' = ret
  /\ iterations' = iterations + 1
  /\ UNCHANGED <<round, orig, sets, built, builder>>

\* the trim of the body slice after the loop
TrimBody(bodyBytes, trailer) ==
  IF Len(bodyBytes) > Len(trailer)
    THEN Slice(bodyBytes, 0, Len(bodyBytes) - Len(trailer))
    ELSE bodyBytes

\* the length with the checksum field counted
RECURSIVE FieldsLengthWithCheckSum(_)
FieldsLengthWithCheckSum(fs) ==
  IF fs = <<>> THEN 0
  ELSE (IF Head(fs).Tag \in {BeginString, BodyLength}
          THEN 0 ELSE FieldLength(Head(fs)))
       + FieldsLengthWithCheckSum(Tail(fs))

\* the length of the fields as parsed
RECURSIVE FieldsLength(_)
FieldsLength(fs) ==
  IF fs = <<>> THEN 0
  ELSE (IF Head(fs).Tag \in {BeginString, BodyLength, CheckSum}
          THEN 0 ELSE FieldLength(Head(fs)))
       + FieldsLength(Tail(fs))

\* the value of the second field of the buffer compared with the length
DeclaredLengthSecond(m) ==
  IF Atoi(m.fields[2].Value).ok THEN Atoi(m.fields[2].Value).n ELSE 0

\* the value compared with the length: msg.Header.GetField(tag.BodyLength, ...)
DeclaredLength(m) == GetInt(m.Header, BodyLength)

\* after the loop: trim, compute the length, compare, return
Validate ==
  /\ pc = "validate"
  /\ LET length == FieldsLength(msg.fields)
         bodyLength == DeclaredLength(msg)
     IN /\ msg' = [msg EXCEPT !.bodyBytes = TrimBody(@, trailerBytes)]
        /\ ret' = IF bodyLength # length
                    THEN Returned(FALSE, IncorrectLength(bodyLength, length))
                    ELSE Returned(FALSE, NoError)
  /\ pc' = "done"
  /\ UNCHANGED <<rawMessage, trailerBytes, foundBody, round, orig, sets, built, builder,
               iterations>>

(* ------------------------- caller mutations ---------------------------- *)
\* the fields a caller sets between parsing and rebuilding
HeaderSets == {NewField(SenderCompID, <<66, 66>>)}
TrailerSets == {NewField(SignatureLength, <<50, 50>>)}

Settable ==
  pc = "done" /\ ~ret.nil /\ round = 1 /\ built = "no" /\ sets < MaxSets

\* msg.Header.Set(field)
SetHeaderField ==
  /\ Settable
  /\ \E f \in HeaderSets :
       /\ MapSet(msg.Header, f) # msg.Header
       /\ msg' = [msg EXCEPT !.Header = MapSet(@, f)]
  /\ sets' = sets + 1
  /\ UNCHANGED <<rawMessage, trailerBytes, foundBody, pc, ret, round, orig, built, builder,
               iterations>>

\* msg.Trailer.Set(field)
SetTrailerField ==
  /\ Settable
  /\ \E f \in TrailerSets :
       /\ MapSet(msg.Trailer, f) # msg.Trailer
       /\ msg' = [msg EXCEPT !.Trailer = MapSet(@, f)]
  /\ sets' = sets + 1
  /\ UNCHANGED <<rawMessage, trailerBytes, foundBody, pc, ret, round, orig, built, builder,
               iterations>>

(* ------------------------------ rebuild -------------------------------- *)
\* fmt.Sprintf("%03d", value)
Pad3(value) ==
  LET d == Itoa(value)
  IN IF Len(d) >= 3 THEN d ELSE [i \in 1..(3 - Len(d)) |-> Ascii0] \o d

newCheckSum(value) == NewField(CheckSum, Pad3(value))

\* the checksum without the reduction modulo 256
rebuildCheckSumUnreduced(m) ==
  MapTotal(m.Header) + MapTotal(m.Trailer) + SumBytes(m.bodyBytes)

\* the checksum rebuild computes: from the maps as they are on entry
rebuildCheckSum(m) ==
  (MapTotal(m.Header) + MapTotal(m.Trailer) + SumBytes(m.bodyBytes)) % 256

\* the body length rebuild computes
rebuildBodyLength(m) ==
  MapLength(m.Header) + Len(m.bodyBytes) + MapLength(m.Trailer)

\* rebuild without the write of the body payload
rebuildWithoutBody(m) ==
  LET bodyLength == rebuildBodyLength(m)
      checkSum == rebuildCheckSum(m)
      header == MapSet(m.Header, NewField(BodyLength, Itoa(bodyLength)))
      trailer == MapSet(m.Trailer, newCheckSum(checkSum))
  IN [m EXCEPT !.Header = header,
               !.Trailer = trailer,
               !.Bytes = headerWrite(header) \o trailerWrite(trailer)]

\* Message.rebuild
rebuild(m) ==
  LET bodyLength == rebuildBodyLength(m)
      checkSum == rebuildCheckSum(m)
      header == MapSet(m.Header, NewField(BodyLength, Itoa(bodyLength)))
      trailer == MapSet(m.Trailer, newCheckSum(checkSum))
  IN [m EXCEPT !.Header = header,
               !.Trailer = trailer,
               !.Bytes = headerWrite(header) \o m.bodyBytes \o trailerWrite(trailer)]

Rebuild ==
  /\ pc = "done" /\ ~ret.nil /\ round = 1 /\ built # "again"
  /\ msg' = rebuild(msg)
  /\ built' = IF built = "no" THEN "once" ELSE "again"
  /\ orig' = IF built = "no" THEN [msg |-> msg, ret |-> ret] ELSE orig
  /\ UNCHANGED <<rawMessage, trailerBytes, foundBody, pc, ret, round, sets, builder,
               iterations>>

\* parseMessage(msg.Bytes) on the rebuilt Message
Reparse ==
  /\ pc = "done" /\ ~ret.nil /\ round = 1 /\ built = "once"
  /\ msg' = NewMessage(msg.Bytes)
  /\ rawMessage' = msg.Bytes
  /\ round' = 2
  /\ pc' = "BeginString"
  /\ iterations' = 0
  /\ UNCHANGED <<trailerBytes, foundBody, ret, orig, sets, built, builder>>

(* ---------------------------- reverseRoute ----------------------------- *)
\* copy without the test for an empty value
copyEmpty(b, header, src, dest) ==
  LET field == GetString(header, src)
  IN IF field.ok
       THEN [b EXCEPT !.Header = MapSet(@, NewField(dest, field.Value))]
       ELSE b

\* the closure copy(src, dest) applied to the builder b
copy(b, header, src, dest) ==
  LET field == GetString(header, src)
  IN IF field.ok /\ Len(field.Value) # 0
       THEN [b EXCEPT !.Header = MapSet(@, NewField(dest, field.Value))]
       ELSE b

RECURSIVE CopyAll(_, _, _)
CopyAll(b, header, pairs) ==
  IF pairs = <<>> THEN b
  ELSE CopyAll(copy(b, header, Head(pairs)[1], Head(pairs)[2]), header, Tail(pairs))

\* the ten copies made for every version
RoutePairs ==
  << <<SenderCompID, TargetCompID>>, <<SenderSubID, TargetSubID>>,
     <<SenderLocationID, TargetLocationID>>,
     <<TargetCompID, SenderCompID>>, <<TargetSubID, SenderSubID>>,
     <<TargetLocationID, SenderLocationID>>,
     <<OnBehalfOfCompID, DeliverToCompID>>, <<OnBehalfOfSubID, DeliverToSubID>>,
     <<DeliverToCompID, OnBehalfOfCompID>>, <<DeliverToSubID, OnBehalfOfSubID>> >>

\* the two copies of the tags added in 4.1
LocationPairs ==
  << <<OnBehalfOfLocationID, DeliverToLocationID>>,
     <<DeliverToLocationID, OnBehalfOfLocationID>> >>

\* reverseRoute without the test of the version
reverseRouteUngated(m) ==
  CopyAll(CopyAll(NewMessageBuilder, m.Header, RoutePairs), m.Header, LocationPairs)

\* reverseRoute copying the begin-string to the builder as well
reverseRouteWithBeginString(m) ==
  LET versioned == copy(NewMessageBuilder, m.Header, BeginString, BeginString)
      reverseBuilder == CopyAll(versioned, m.Header, RoutePairs)
      beginString == GetString(m.Header, BeginString)
  IN IF beginString.ok /\ beginString.Value # BeginString_FIX40
       THEN CopyAll(reverseBuilder, m.Header, LocationPairs)
       ELSE reverseBuilder

\* Message.reverseRoute
reverseRoute(m) ==
  LET reverseBuilder == CopyAll(NewMessageBuilder, m.Header, RoutePairs)
      beginString == GetString(m.Header, BeginString)
  IN IF beginString.ok /\ beginString.Value # BeginString_FIX40
       THEN CopyAll(reverseBuilder, m.Header, LocationPairs)
       ELSE reverseBuilder

ReverseRoute ==
  /\ pc = "done" /\ ~ret.nil /\ round = 1 /\ built = "no"
  /\ builder' = reverseRoute(msg)
  /\ pc' = "routed"
  /\ UNCHANGED <<msg, rawMessage, trailerBytes, foundBody, ret, round, orig, sets, built,
               iterations>>

(* --------------------------- specification ----------------------------- *)
Next ==
  \/ ParseMessage
  \/ ExtractBeginString
  \/ ExtractBodyLength
  \/ ExtractMsgType
  \/ ExtractNext
  \/ Validate
  \/ SetHeaderField
  \/ SetTrailerField
  \/ Rebuild
  \/ Reparse
  \/ ReverseRoute

Spec == Init /\ [][Next]_vars

\* the steps of parseMessage between its call and its return
ParseStep ==
  ExtractBeginString \/ ExtractBodyLength \/ ExtractMsgType \/ ExtractNext \/ Validate

\* parseMessage waits for nothing: once called it keeps taking its steps.
\* This is weak fairness of ParseStep, with ENABLED <<ParseStep>>_vars written
\* out: a step of parseMessage is possible exactly between call and return.
FairSpec ==
  Spec /\ ([]<>(pc \in {"idle", "done", "routed"}) \/ []<><<ParseStep>>_vars)

(* ------------------------------ claims --------------------------------- *)
\* tag -> value content of a map, body-length and checksum left out
Content(m) == [t \in (DOMAIN m) \ {BodyLength, CheckSum} |-> m[t].Value]

\* the tags of a list of fields
TagsOf(fs) == [i \in 1..Len(fs) |-> fs[i].Tag]

\* the bytes of a list of fields, in order
DataOf(fs) == Flatten([i \in 1..Len(fs) |-> fs[i].Data])

\* parseMessage has just returned: nothing has touched the Message since
JustParsed == pc = "done" /\ (round = 2 \/ (sets = 0 /\ built = "no"))

\* parseMessage has just returned a Message
ReturnedMessage == JustParsed /\ ~ret.nil

\* the rebuilt Bytes of an unmutated, validly parsed Message were parsed again
RoundTripDone ==
  pc = "done" /\ round = 2 /\ sets = 0 /\ built = "once" /\ orig.ret.err = NoError

\* C1: parsing the Bytes rebuilt from a validly parsed Message gives no error
\* and a Message with the same header, body and trailer content (body-length
\* and checksum excepted) and the same body payload.
C1_RoundTrip ==
  RoundTripDone =>
    /\ ~ret.nil
    /\ ret.err = NoError
    /\ Content(msg.Header) = Content(orig.msg.Header)
    /\ Content(msg.Body) = Content(orig.msg.Body)
    /\ Content(msg.Trailer) = Content(orig.msg.Trailer)
    /\ msg.bodyBytes = orig.msg.bodyBytes

\* rebuild() has run and nothing has touched the Message since
Rebuilt == pc = "done" /\ round = 1 /\ built # "no"

\* the bytes rebuild() serialized, the checksum field left out
SerializedWithoutCheckSum(m) ==
  headerWrite(m.Header) \o m.bodyBytes
    \o MapWrite(m.Trailer, Ascending((DOMAIN m.Trailer) \ {CheckSum}))

\* C2: the checksum rebuild() writes is the sum modulo 256 of the bytes it
\* serializes (header with the new body-length, body payload, trailer), the
\* checksum field itself excepted, as three digits.
C2_CheckSumOfSerialized ==
  Rebuilt =>
    msg.Trailer[CheckSum].Value = Pad3(SumBytes(SerializedWithoutCheckSum(msg)) % 256)

\* C3: the body-length rebuild() writes is the length of the fields of the
\* rebuilt Bytes: parsing the rebuilt Bytes never returns a length mismatch.
C3_RebuiltLength ==
  (pc = "done" /\ round = 2) => ret.err.kind # "IncorrectLength"

\* the checksum field was reached: every field up to it was extracted
ReachedCheckSum ==
  JustParsed /\ Len(msg.fields) > 0 /\ msg.fields[Len(msg.fields)].Tag = CheckSum

\* the lengths of the parsed fields other than begin-string, body-length, checksum
ActualLength(m) ==
  Len(DataOf(SelectSeq(m.fields,
                       LAMBDA f : f.Tag \notin {BeginString, BodyLength, CheckSum})))

\* the body-length the header of the Message declares is the integer n
Declares(m, n) ==
  /\ BodyLength \in DOMAIN m.Header
  /\ IsDigits(m.Header[BodyLength].Value)
  /\ DigitsValue(m.Header[BodyLength].Value) = n

\* the fields of a map are the last occurrences among the parsed fields
HoldsParsed(m, map, InPartition(_)) ==
  /\ DOMAIN map = {m.fields[i].Tag : i \in {j \in 1..Len(m.fields) : InPartition(m.fields[j].Tag)}}
  /\ \A i \in 1..Len(m.fields) :
       (InPartition(m.fields[i].Tag)
          /\ \A j \in (i + 1)..Len(m.fields) : m.fields[j].Tag # m.fields[i].Tag)
       => map[m.fields[i].Tag] = m.fields[i]

\* C4: once the checksum field is reached, parseMessage returns a length
\* mismatch exactly when the body-length the header declares is not the sum of
\* the lengths of the parsed fields other than begin-string, body-length and
\* checksum; the Message is then returned with all that was parsed, and no
\* other error comes with a Message.
C4_LengthMismatch ==
  /\ ReachedCheckSum =>
       /\ ~ret.nil
       /\ ret.err.kind \in {"nil", "IncorrectLength"}
       /\ (ret.err.kind = "IncorrectLength") <=> ~Declares(msg, ActualLength(msg))
       /\ ret.err.kind = "IncorrectLength" => ret.err.actual = ActualLength(msg)
       /\ DataOf(msg.fields) \o rawMessage = msg.Bytes
       /\ HoldsParsed(msg, msg.Header, IsHeader)
       /\ HoldsParsed(msg, msg.Trailer, IsTrailer)
       /\ HoldsParsed(msg, msg.Body, IsBody)
  /\ (JustParsed /\ ret.err.kind \notin {"nil", "IncorrectLength"}) => ret.nil

C4_Witness ==
  /\ ReachedCheckSum /\ round = 1
  /\ ret.err.kind = "IncorrectLength" /\ ~ret.nil
  /\ Len(msg.fields) > 4
  /\ ret.err.expected = ret.err.actual + 1

\* the first three fields of a buffer, as far as they extract
LeadingFields(buf) ==
  LET f1 == extractField(buf)
      f2 == extractField(f1.remBytes)
      f3 == extractField(f2.remBytes)
  IN <<f1, f2, f3>>

LeadingTags == <<BeginString, BodyLength, MsgType>>

\* the i-th field is the first leading field with another tag than expected
WrongLeadingField(buf, i) ==
  LET fs == LeadingFields(buf)
  IN /\ \A j \in 1..i : fs[j].err = NoError
     /\ \A j \in 1..(i - 1) : fs[j].field.Tag = LeadingTags[j]
     /\ fs[i].field.Tag # LeadingTags[i]

\* C5: a buffer whose first, second or third field has not the tag
\* begin-string, body-length, message-type gets an out-of-order error naming
\* the expected and the actual tag, and no Message; no later field is examined.
C5_LeadingFields ==
  JustParsed =>
    \A i \in 1..3 :
      WrongLeadingField(msg.Bytes, i) =>
        /\ ret.nil
        /\ ret.err = OutOfOrder(LeadingTags[i], LeadingFields(msg.Bytes)[i].field.Tag)
        /\ rawMessage = LeadingFields(msg.Bytes)[i].remBytes
        /\ Len(msg.fields) = i - 1

C5_Witness ==
  /\ JustParsed /\ round = 1
  /\ WrongLeadingField(msg.Bytes, 3)
  /\ ret.err = OutOfOrder(MsgType, SenderCompID)

\* a field must be extracted
ExtractsField == pc \in {"BeginString", "BodyLength", "MsgType", "loop"}

\* C6: when a field must be extracted and the remaining buffer has no
\* delimiter, parseMessage returns a malformed-field error and no Message.
C6_MissingDelimiter ==
  [][(ExtractsField /\ IndexByte(rawMessage, SOH) = -1) =>
       (pc' = "done" /\ ret'.nil /\ ret'.err = NoTrailingDelim)]_vars

C6_Witness ==
  /\ JustParsed /\ ret.nil /\ ret.err = NoTrailingDelim
  /\ Len(msg.fields) > 3
  /\ rawMessage # <<>>

\* the fields after message-type come header first, then body, then trailer
RECURSIVE Ordered(_)
Ordered(ranks) ==
  Len(ranks) < 2 \/ (ranks[1] <= ranks[2] /\ Ordered(Tail(ranks)))

PartitionRank(t) == IF IsHeader(t) THEN 1 ELSE IF IsTrailer(t) THEN 3 ELSE 2

InPartitionOrder(m) ==
  Ordered([i \in 1..(Len(m.fields) - 3) |-> PartitionRank(m.fields[i + 3].Tag)])

BodyFields(m) == SelectSeq(m.fields, LAMBDA f : IsBody(f.Tag))

\* C7: for a message parsed without error that has a body field and whose
\* fields come in partition order,
\* the body payload is the bytes of the body fields, whatever the number of
\* header fields after message-type.
C7_BodyPayload ==
  (ReturnedMessage /\ ret.err = NoError /\ InPartitionOrder(msg) /\ BodyFields(msg) # <<>>) =>
    msg.bodyBytes = DataOf(BodyFields(msg))

\* C8: for a message parsed without error that has no body field the body
\* payload is empty, whatever
\* the number of header fields after message-type.
C8_EmptyBody ==
  (ReturnedMessage /\ ret.err = NoError /\ BodyFields(msg) = <<>>) => msg.bodyBytes = <<>>

\* C9: a returned Message starts with begin-string, body-length, message-type,
\* has one checksum field, its last; the fields are the bytes of the buffer up
\* to that field, the bytes after it are not parsed.
C9_Framing ==
  ReturnedMessage =>
    /\ Len(msg.fields) >= 4
    /\ SubSeq(TagsOf(msg.fields), 1, 3) = LeadingTags
    /\ {i \in 1..Len(msg.fields) : msg.fields[i].Tag = CheckSum} = {Len(msg.fields)}
    /\ DataOf(msg.fields) \o rawMessage = msg.Bytes

C9_Witness ==
  /\ ReturnedMessage /\ round = 1
  /\ rawMessage # <<>>
  /\ SignatureLength \in DOMAIN msg.Trailer
  /\ ret.err = NoError

\* the five pairs of routing tags, in both directions
SwapPairs ==
  LET pairs == {<<SenderCompID, TargetCompID>>, <<SenderSubID, TargetSubID>>,
                <<SenderLocationID, TargetLocationID>>,
                <<OnBehalfOfCompID, DeliverToCompID>>,
                <<OnBehalfOfSubID, DeliverToSubID>>}
  IN pairs \cup {<<p[2], p[1]>> : p \in pairs}

HasValue(map, t) == t \in DOMAIN map /\ map[t].Value # <<>>

\* C10: for each of the five pairs and both directions, the builder of
\* reverseRoute has the destination tag, with the value of the source, exactly
\* when the header has the source tag with a non-empty value.
C10_ReverseRoute ==
  pc = "routed" =>
    \A p \in SwapPairs :
      /\ HasValue(msg.Header, p[1]) =>
           /\ p[2] \in DOMAIN builder.Header
           /\ builder.Header[p[2]].Value = msg.Header[p[1]].Value
           /\ builder.Header[p[2]].Tag = p[2]
      /\ ~HasValue(msg.Header, p[1]) => p[2] \notin DOMAIN builder.Header

C10_Witness ==
  /\ pc = "routed"
  /\ HasValue(msg.Header, SenderCompID)
  /\ TargetSubID \in DOMAIN msg.Header /\ ~HasValue(msg.Header, TargetSubID)
  /\ HasValue(builder.Header, TargetCompID)
  /\ DOMAIN builder.Header = {TargetCompID}


\* the on-behalf-of / deliver-to location pair, in both directions
GatedPairs ==
  {<<OnBehalfOfLocationID, DeliverToLocationID>>,
   <<DeliverToLocationID, OnBehalfOfLocationID>>}

\* the begin-string is in the header and is not that of FIX.4.0
AfterFIX40(m) ==
  BeginString \in DOMAIN m.Header /\ m.Header[BeginString].Value # BeginString_FIX40

\* the builder has the tag dest with the value the header has for src
Copied(b, header, src, dest) ==
  /\ dest \in DOMAIN b.Header
  /\ b.Header[dest].Tag = dest
  /\ b.Header[dest].Value = header[src].Value

\* C11: reverseRoute copies the on-behalf-of and deliver-to location to each
\* other only when the begin-string is present and is not FIX.4.0; for a
\* FIX.4.0 message the builder has neither location tag, whatever the header
\* holds, and the other five pairs are swapped for every version.
C11_VersionGate ==
  pc = "routed" =>
    /\ \A p \in GatedPairs :
         IF AfterFIX40(msg) /\ HasValue(msg.Header, p[1])
           THEN Copied(builder, msg.Header, p[1], p[2])
           ELSE p[2] \notin DOMAIN builder.Header
    /\ \A p \in SwapPairs :
         HasValue(msg.Header, p[1]) => Copied(builder, msg.Header, p[1], p[2])

C11_Witness ==
  /\ pc = "routed"
  /\ msg.Header[BeginString].Value = BeginString_FIX40
  /\ HasValue(msg.Header, OnBehalfOfLocationID)
  /\ HasValue(msg.Header, SenderCompID)
  /\ DOMAIN builder.Header = {TargetCompID}


\* the tag t occurs more than once among the parsed fields
Repeated(m, t) ==
  \E i, j \in 1..Len(m.fields) :
    i # j /\ m.fields[i].Tag = t /\ m.fields[j].Tag = t

\* the length parseMessage computed is n: it is reported by the length
\* mismatch, and is the declared length when there is no error
ComputedLengthIs(n) ==
  IF ret.err.kind = "IncorrectLength" THEN ret.err.actual = n ELSE Declares(msg, n)

\* the maps hold each parsed tag in the one partition of the tag, with the
\* field of its last occurrence; the list holds every field of the buffer
LastWriteWins(m) ==
  /\ HoldsParsed(m, m.Header, IsHeader)
  /\ HoldsParsed(m, m.Trailer, IsTrailer)
  /\ HoldsParsed(m, m.Body, IsBody)
  /\ DataOf(m.fields) \o rawMessage = m.Bytes

\* C12 as stated: each occurrence of a tag goes to the one partition of the
\* tag, the map holds the last occurrence, and every occurrence of a repeated
\* tag is in the list and counts toward the computed length.
C12_EveryOccurrenceCounts ==
  ReturnedMessage =>
    /\ LastWriteWins(msg)
    /\ ComputedLengthIs(
         Len(DataOf(SelectSeq(msg.fields,
                              LAMBDA f : \/ f.Tag \notin {BeginString, BodyLength, CheckSum}
                                         \/ Repeated(msg, f.Tag)))))

\* C12 amended: as above, but an occurrence counts toward the computed length
\* unless its tag is begin-string or body-length (or checksum), repeated or not.
C12_LastWriteWins ==
  ReturnedMessage =>
    /\ LastWriteWins(msg)
    /\ ComputedLengthIs(ActualLength(msg))

C12_Witness ==
  /\ ReturnedMessage /\ round = 1
  /\ Len(BodyFields(msg)) = 2
  /\ BodyFields(msg)[1].Tag = BodyFields(msg)[2].Tag
  /\ BodyFields(msg)[1].Value # BodyFields(msg)[2].Value
  /\ msg.Body[Symbol] = BodyFields(msg)[2]
  /\ ret.err = NoError


\* the entries of a map other than those of the tags in skip
Without(map, skip) == [t \in (DOMAIN map) \ skip |-> map[t]]

\* C13: rebuild() makes Bytes the serialization of the header map, then the
\* body payload unchanged, then the serialization of the trailer map; it
\* leaves the body payload, the body map and every header and trailer entry
\* other than body-length and checksum as they were.
C13_RebuildLayout ==
  Rebuilt =>
    /\ msg.Bytes = headerWrite(msg.Header) \o orig.msg.bodyBytes \o trailerWrite(msg.Trailer)
    /\ msg.bodyBytes = orig.msg.bodyBytes
    /\ msg.Body = orig.msg.Body
    /\ msg.fields = orig.msg.fields
    /\ DOMAIN msg.Header = (DOMAIN orig.msg.Header) \cup {BodyLength}
    /\ DOMAIN msg.Trailer = (DOMAIN orig.msg.Trailer) \cup {CheckSum}
    /\ Without(msg.Header, {BodyLength}) = Without(orig.msg.Header, {BodyLength})
    /\ Without(msg.Trailer, {CheckSum}) = Without(orig.msg.Trailer, {CheckSum})

C13_Witness ==
  /\ Rebuilt /\ built = "once" /\ sets = 1
  /\ msg.bodyBytes # <<>>
  /\ SignatureLength \in DOMAIN msg.Trailer
  /\ SenderCompID \in DOMAIN msg.Header
  /\ msg.Bytes # orig.msg.Bytes


\* C14: the checksum value rebuild() writes is a decimal string of exactly
\* three characters, zero-padded, of an integer in 0..255.
C14_CheckSumFormat ==
  Rebuilt =>
    LET value == msg.Trailer[CheckSum].Value
    IN /\ Len(value) = 3
       /\ IsDigits(value)
       /\ DigitsValue(value) \in 0..255
       /\ msg.Trailer[CheckSum].Data = Itoa(CheckSum) \o <<EQ>> \o value \o <<SOH>>

C14_Witness ==
  /\ Rebuilt
  /\ msg.Trailer[CheckSum].Value[1] = Ascii0
  /\ DigitsValue(msg.Trailer[CheckSum].Value) > 0
  /\ SumBytes(msg.Bytes) > 256


\* C15: a second rebuild() right after the first leaves the body-length
\* value, the checksum value and Bytes as the first call left them.
C15_RebuildIdempotent ==
  (Rebuilt /\ built = "again") =>
    LET once == rebuild(orig.msg)
    IN /\ msg.Header[BodyLength].Value = once.Header[BodyLength].Value
       /\ msg.Trailer[CheckSum].Value = once.Trailer[CheckSum].Value
       /\ msg.Bytes = once.Bytes


\* the body-length fields of the Message, in the order of the buffer
BodyLengthFields(m) == SelectSeq(m.fields, LAMBDA f : f.Tag = BodyLength)

\* the field declares the integer n; a value that is no integer reads as 0
FieldDeclares(f, n) == IF IsDigits(f.Value) THEN DigitsValue(f.Value) = n ELSE n = 0

\* the value parseMessage compared with the computed length is that of field f
ComparedWith(f) ==
  /\ ret.err.kind \in {"nil", "IncorrectLength"}
  /\ (ret.err.kind = "IncorrectLength") <=> ~FieldDeclares(f, ActualLength(msg))
  /\ ret.err.kind = "IncorrectLength" =>
       /\ FieldDeclares(f, ret.err.expected)
       /\ ret.err.actual = ActualLength(msg)

\* C16 as stated: the value compared with the computed length is that of the
\* body-length field in second position, also when another body-length field
\* occurs later in the buffer.
C16_DeclaredFromSecondField ==
  ReachedCheckSum => ComparedWith(msg.fields[2])

\* C16: the value compared with the computed length is that of the last
\* body-length field before the checksum, which is the second field of the
\* buffer when no other body-length field follows it.
C16_DeclaredFromLastField ==
  ReachedCheckSum =>
    LET ls == BodyLengthFields(msg)
    IN /\ Len(ls) >= 1
       /\ ls[1] = msg.fields[2]
       /\ ComparedWith(ls[Len(ls)])

\* a buffer whose second field declares a wrong length and whose later
\* body-length field declares the right one was parsed without error
C16_Witness ==
  /\ ReachedCheckSum /\ round = 1
  /\ Len(BodyLengthFields(msg)) = 2
  /\ ~FieldDeclares(msg.fields[2], ActualLength(msg))
  /\ FieldDeclares(BodyLengthFields(msg)[2], ActualLength(msg))
  /\ ret.err = NoError


\* parseMessage was called and has not returned
Parsing == pc \in {"BeginString", "BodyLength", "MsgType", "loop", "validate"}

\* the number of delimiter bytes of a buffer
Delimiters(buf) == Cardinality({i \in 1..Len(buf) : buf[i] = SOH})

\* every call of parseMessage returns
ParseReturns == Parsing ~> (pc = "done")

\* a step that extracts a field leaves a shorter buffer to parse
ExtractionShortens ==
  [][(Parsing /\ Len(msg'.fields) > Len(msg.fields))
       => Len(rawMessage') < Len(rawMessage)]_vars

\* the loop has run at most once for each delimiter byte of the input
IterationBound ==
  (Parsing \/ JustParsed) => iterations <= Delimiters(msg.Bytes)

\* the loop stopped at the first checksum field of the buffer
EndsAtCheckSum ==
  /\ pc' = "validate"
  /\ msg'.fields[Len(msg'.fields)].Tag = CheckSum
  /\ \A i \in 4..Len(msg.fields) : msg.fields[i].Tag # CheckSum

\* the loop stopped with the error of a buffer that has no delimiter
EndsWithoutDelimiter ==
  /\ pc' = "done" /\ ret'.nil /\ ret'.err = NoTrailingDelim
  /\ Delimiters(rawMessage) = 0

\* the loop stopped with the error of a field that has no tag
EndsAtBadField ==
  /\ pc' = "done" /\ ret'.nil /\ ret'.err = BadField
  /\ Delimiters(rawMessage) > 0
  /\ parseField(Slice(rawMessage, 0, IndexByte(rawMessage, SOH) + 1)).err = BadField

\* C17 as stated: parseMessage returns for every input, every extraction
\* shortens the remaining buffer, the loop ends at the first checksum field or
\* with the error of a remaining buffer without delimiter, and the loop runs at
\* most once for each delimiter byte of the input.
C17_EndsAtCheckSumOrNoDelimiter ==
  /\ ParseReturns
  /\ ExtractionShortens
  /\ [][(pc = "loop" /\ pc' # "loop") => (EndsAtCheckSum \/ EndsWithoutDelimiter)]_vars
  /\ []IterationBound

\* C17: parseMessage returns for every input, every extraction shortens the
\* remaining buffer, the loop ends at the first checksum field, with the error
\* of a remaining buffer without delimiter, or with the error of a field
\* without a tag, and the loop runs at most once for each delimiter byte of
\* the input.
C17_ParsingTerminates ==
  /\ ParseReturns
  /\ ExtractionShortens
  /\ [][(pc = "loop" /\ pc' # "loop")
          => (EndsAtCheckSum \/ EndsWithoutDelimiter \/ EndsAtBadField)]_vars
  /\ []IterationBound

\* the loop ran three times on a buffer cut short after two fields
C17_Witness ==
  /\ pc = "done" /\ round = 1 /\ ret.nil
  /\ ret.err = NoTrailingDelim
  /\ iterations = 3
  /\ Len(msg.fields) = 5
  /\ Delimiters(msg.Bytes) = 5


\* sender/target and on-behalf-of/deliver-to comp, sub and location
TwelveRoutingTags ==
  {SenderCompID, SenderSubID, SenderLocationID,
   TargetCompID, TargetSubID, TargetLocationID,
   OnBehalfOfCompID, OnBehalfOfSubID, OnBehalfOfLocationID,
   DeliverToCompID, DeliverToSubID, DeliverToLocationID}

\* a step in which reverseRoute is called and returns
ReverseRouted == pc # "routed" /\ pc' = "routed"

\* C18: reverseRoute leaves the header, body, trailer, body payload and Bytes
\* of the Message as they were, and the builder it returns has no body field,
\* no trailer field and no header field other than the twelve routing tags.
C18_ReverseRoutePure ==
  [][ReverseRouted =>
       /\ msg'.Header = msg.Header
       /\ msg'.Body = msg.Body
       /\ msg'.Trailer = msg.Trailer
       /\ msg'.bodyBytes = msg.bodyBytes
       /\ msg'.Bytes = msg.Bytes
       /\ builder'.Body = EmptyMap
       /\ builder'.Trailer = EmptyMap
       /\ DOMAIN builder'.Header \subseteq TwelveRoutingTags]_vars

\* reverseRoute returned a builder with one routing field for a Message that
\* has header fields outside the routing tags, a body field and a trailer field
C18_Witness ==
  /\ pc = "routed"
  /\ {BeginString, BodyLength, MsgType} \subseteq DOMAIN msg.Header
  /\ Symbol \in DOMAIN msg.Body
  /\ CheckSum \in DOMAIN msg.Trailer
  /\ msg.bodyBytes # <<>>
  /\ DOMAIN builder.Header = {TargetCompID}
  /\ builder.Body = EmptyMap /\ builder.Trailer = EmptyMap

====
